---- MODULE Spec2Model ----
(***************************************************************************)
(* Model of the rhoai-cluster-monitor MCP server: the Hive resource client *)
(* (cluster_monitor_mcp/k8s/client.py), the aggregator, the cluster-view   *)
(* builders and the query tools (cluster_monitor_mcp/server.py).           *)
(*                                                                         *)
(* Python dicts are functions whose DOMAIN is the set of keys present, so  *)
(* d.get(k, default) is Get(d, k, default).  Python strings are TLA+       *)
(* strings; split, join, lower, strip, startswith, "in" and the ordering   *)
(* used by sort are computed character by character.  None is the empty    *)
(* function, which is falsy exactly as None and {} are in Python.          *)
(***************************************************************************)
EXTENDS Integers, Sequences, FiniteSets, TLC

VARIABLES
    remote,       \* the orchestration cluster: claims, deployments, pools, access
    hive_client,  \* server.py global _hive_client
    calls,        \* remote calls issued by the last tool invocation, in order
    result        \* outcome of the last tool invocation

vars == <<remote, hive_client, calls, result>>

-----------------------------------------------------------------------------
(* Bounds of the model *)

MaxClaims == 2
MaxDeps == 2
MaxConds == 2

MaxInvocations == 2

-----------------------------------------------------------------------------
(* Python values *)

None == <<>>

\* truth value of a dict, a list or None
Truthy(v) == v # <<>>

\* truth value of a str
TruthyStr(s) == s # ""

Get(d, k, default) == IF k \in DOMAIN d THEN d[k] ELSE default

\* d.get(k) == v for a v that is not None
KeyIs(d, k, v) == k \in DOMAIN d /\ d[k] = v

\* dict[k] = v
DictSet(d, k, v) == [x \in (DOMAIN d) \cup {k} |-> IF x = k THEN v ELSE d[x]]

\* dict.update(e)
DictUpdate(d, e) == [x \in (DOMAIN d) \cup (DOMAIN e) |-> IF x \in DOMAIN e THEN e[x] ELSE d[x]]

-----------------------------------------------------------------------------
(* Python str operations *)

\* the characters of the model's strings, in code point order
CodePoints == " -./0123456789:ABCDEFGHIJKLMNOPQRSTUVWXYZ_abcdefghijklmnopqrstuvwxyz"

UpperCase == "ABCDEFGHIJKLMNOPQRSTUVWXYZ"

LowerCase == "abcdefghijklmnopqrstuvwxyz"

CharAt(s, i) == SubSeq(s, i, i)

StrFrom(s, i) == SubSeq(s, i, Len(s))

Ord(c) == CHOOSE i \in 1..Len(CodePoints) : CharAt(CodePoints, i) = c

LowerChar(c) ==
    IF \E i \in 1..Len(UpperCase) : CharAt(UpperCase, i) = c
    THEN CharAt(LowerCase, CHOOSE i \in 1..Len(UpperCase) : CharAt(UpperCase, i) = c)
    ELSE c

RECURSIVE Lower(_)
Lower(s) == IF s = "" THEN "" ELSE LowerChar(CharAt(s, 1)) \o Lower(StrFrom(s, 2))

RECURSIVE LStrip(_)
LStrip(s) == IF s # "" /\ CharAt(s, 1) = " " THEN LStrip(StrFrom(s, 2)) ELSE s

RECURSIVE RStrip(_)
RStrip(s) == IF s # "" /\ CharAt(s, Len(s)) = " " THEN RStrip(SubSeq(s, 1, Len(s) - 1)) ELSE s

Strip(s) == RStrip(LStrip(s))

StartsWith(s, p) == Len(p) <= Len(s) /\ SubSeq(s, 1, Len(p)) = p

\* sub in s
Contains(sub, s) == \E i \in 0..(Len(s) - Len(sub)) : SubSeq(s, i + 1, i + Len(sub)) = sub

\* position (1-based) of the first occurrence of sep in s, 0 when there is none
Find(s, sep) ==
    LET hits == {i \in 1..(Len(s) - Len(sep) + 1) : SubSeq(s, i, i + Len(sep) - 1) = sep}
    IN IF hits = {} THEN 0 ELSE CHOOSE i \in hits : \A j \in hits : i <= j

RECURSIVE Split(_, _)
Split(s, sep) ==
    LET i == Find(s, sep)
    IN IF i = 0 THEN <<s>>
       ELSE <<SubSeq(s, 1, i - 1)>> \o Split(StrFrom(s, i + Len(sep)), sep)

RECURSIVE Join(_, _)
Join(sep, parts) ==
    IF parts = <<>> THEN ""
    ELSE IF Len(parts) = 1 THEN parts[1]
    ELSE parts[1] \o sep \o Join(sep, Tail(parts))

\* a < b for str
RECURSIVE StrLess(_, _)
StrLess(a, b) ==
    IF b = "" THEN FALSE
    ELSE IF a = "" THEN TRUE
    ELSE IF CharAt(a, 1) = CharAt(b, 1) THEN StrLess(StrFrom(a, 2), StrFrom(b, 2))
    ELSE Ord(CharAt(a, 1)) < Ord(CharAt(b, 1))

-----------------------------------------------------------------------------
(* Cluster-view builders *)

CLAIMS_NAMESPACE == "rhoai"

PLATFORM_LABEL == "hive.openshift.io/cluster-platform"

REGION_LABEL == "hive.openshift.io/cluster-region"

VERSION_LABEL == "hive.openshift.io/version"

\* mutant: the most severe condition type wins, wherever it stands in the list
ScanConditionsByPriority(conditions) ==
    LET has(type) == \E i \in 1..Len(conditions) :
                        KeyIs(conditions[i], "type", type) /\ KeyIs(conditions[i], "status", "True")
    IN IF has("Hibernating") THEN "Hibernating"
       ELSE IF has("Ready") THEN "Running"
       ELSE IF has("ProvisionStopped") THEN "ProvisionStopped"
       ELSE IF has("Resuming") THEN "Resuming"
       ELSE "Unknown"

\* the scan of the conditions: "Unknown" when no condition matched
RECURSIVE ScanConditions(_)
ScanConditions(conditions) ==
    IF conditions = <<>> THEN "Unknown"
    ELSE LET condition == Head(conditions)
         IN IF KeyIs(condition, "type", "Hibernating") /\ KeyIs(condition, "status", "True")
              THEN "Hibernating"
            ELSE IF KeyIs(condition, "type", "Ready") /\ KeyIs(condition, "status", "True")
              THEN "Running"
            ELSE IF KeyIs(condition, "type", "ProvisionStopped") /\ KeyIs(condition, "status", "True")
              THEN "ProvisionStopped"
            ELSE IF KeyIs(condition, "type", "Resuming") /\ KeyIs(condition, "status", "True")
              THEN "Resuming"
            ELSE ScanConditions(Tail(conditions))

ResolveState(conditions, power_state) ==
    LET state == ScanConditions(conditions)
    IN IF state = "Unknown" THEN power_state ELSE state

\* mutant: the cluster name is dropped together with the api label
DeriveConsoleUrlDropTwo(api_url) ==
    IF api_url = "N/A" THEN "N/A"
    ELSE LET halves == Split(api_url, "//")
         IN IF Len(halves) < 2 THEN "N/A"
            ELSE LET api_domain == Split(halves[2], ":")[1]
                     labels == Split(api_domain, ".")
                     cluster_domain == Join(".", SubSeq(labels, 3, Len(labels)))
                 IN "https://console-openshift-console.apps." \o cluster_domain

\* api_url.split("//")[1] raises IndexError, which the except clause swallows
DeriveConsoleUrl(api_url) ==
    IF api_url = "N/A" THEN "N/A"
    ELSE LET halves == Split(api_url, "//")
         IN IF Len(halves) < 2 THEN "N/A"
            ELSE LET api_domain == Split(halves[2], ":")[1]
                     cluster_domain == Join(".", Tail(Split(api_domain, ".")))
                 IN "https://console-openshift-console.apps." \o cluster_domain

ClaimPending(claim_status) ==
    IF Truthy(Get(claim_status, "conditions", <<>>))
    THEN Get(claim_status.conditions[1], "reason", "Unknown")
    ELSE "Unknown"

\* mutant: without a deployment the deployment-derived fields get sentinels
extract_cluster_info_sentinels(clusterclaim, clusterdeployment) ==
    LET claim_spec == Get(clusterclaim, "spec", <<>>)
        info == [name |-> Get(Get(clusterclaim, "metadata", <<>>), "name", "unknown"),
                 owner |-> Get(Get(Get(clusterclaim, "metadata", <<>>), "labels", <<>>), "owner", ""),
                 pool |-> Get(claim_spec, "clusterPoolName", "N/A"),
                 namespace |-> "rhoai",
                 cluster_namespace |-> Get(claim_spec, "namespace", "N/A"),
                 pending |-> ClaimPending(Get(clusterclaim, "status", <<>>))]
        cd_spec == Get(clusterdeployment, "spec", <<>>)
        cd_status == Get(clusterdeployment, "status", <<>>)
        cd_metadata == Get(clusterdeployment, "metadata", <<>>)
        labels == Get(cd_metadata, "labels", <<>>)
        power_state == Get(cd_spec, "powerState", "unknown")
        api_url == Get(cd_status, "apiURL", "N/A")
    IN DictUpdate(info,
         [platform |-> Get(labels, PLATFORM_LABEL, "unknown"),
          region |-> Get(labels, REGION_LABEL, "unknown"),
          version |-> Get(labels, VERSION_LABEL, "unknown"),
          state |-> IF Truthy(clusterdeployment)
                    THEN ResolveState(Get(cd_status, "conditions", <<>>), power_state)
                    ELSE "unknown",
          power_state |-> power_state,
          api_url |-> api_url,
          console_url |-> DeriveConsoleUrl(api_url),
          infra_id |-> Get(cd_status, "infraID", "N/A"),
          cluster_id |-> Get(cd_metadata, "uid", "N/A")])

extract_cluster_info(clusterclaim, clusterdeployment) ==
    LET claim_name == Get(Get(clusterclaim, "metadata", <<>>), "name", "unknown")
        claim_spec == Get(clusterclaim, "spec", <<>>)
        claim_status == Get(clusterclaim, "status", <<>>)
        cluster_namespace == Get(claim_spec, "namespace", "N/A")
        claim_labels == Get(Get(clusterclaim, "metadata", <<>>), "labels", <<>>)
        owner == Get(claim_labels, "owner", "")
        info == [name |-> claim_name,
                 owner |-> owner,
                 pool |-> Get(claim_spec, "clusterPoolName", "N/A"),
                 namespace |-> "rhoai",
                 cluster_namespace |-> cluster_namespace,
                 pending |-> ClaimPending(claim_status)]
    IN IF Truthy(clusterdeployment)
       THEN LET cd_spec == Get(clusterdeployment, "spec", <<>>)
                cd_status == Get(clusterdeployment, "status", <<>>)
                cd_metadata == Get(clusterdeployment, "metadata", <<>>)
                labels == Get(cd_metadata, "labels", <<>>)
                power_state == Get(cd_spec, "powerState", "Unknown")
                api_url == Get(cd_status, "apiURL", "N/A")
            IN DictUpdate(info,
                 [platform |-> Get(labels, PLATFORM_LABEL, "unknown"),
                  region |-> Get(labels, REGION_LABEL, "unknown"),
                  version |-> Get(labels, VERSION_LABEL, "unknown"),
                  state |-> ResolveState(Get(cd_status, "conditions", <<>>), power_state),
                  power_state |-> power_state,
                  api_url |-> api_url,
                  console_url |-> DeriveConsoleUrl(api_url),
                  infra_id |-> Get(cd_status, "infraID", "N/A"),
                  cluster_id |-> Get(cd_metadata, "uid", "N/A")])
       ELSE info

\* the first key of the spec's platform map; the maps of the model hold one key
\* mutant: the platform is read from the label only
IbmPlatformLabelOnly(labels, cd_spec) ==
    IF PLATFORM_LABEL \in DOMAIN labels /\ TruthyStr(labels[PLATFORM_LABEL])
    THEN labels[PLATFORM_LABEL]
    ELSE "unknown"

IbmPlatform(labels, cd_spec) ==
    IF PLATFORM_LABEL \in DOMAIN labels /\ TruthyStr(labels[PLATFORM_LABEL])
    THEN labels[PLATFORM_LABEL]
    ELSE LET platform == Get(cd_spec, "platform", <<>>)
         IN IF platform = <<>> THEN "unknown"
            ELSE CHOOSE k \in DOMAIN platform : TRUE

extract_ibm_cluster_info(clusterdeployment) ==
    LET cd_metadata == Get(clusterdeployment, "metadata", <<>>)
        cd_spec == Get(clusterdeployment, "spec", <<>>)
        cd_status == Get(clusterdeployment, "status", <<>>)
        labels == Get(cd_metadata, "labels", <<>>)
        power_state == Get(cd_spec, "powerState", "Unknown")
        api_url == Get(cd_status, "apiURL", "N/A")
    IN [name |-> Get(cd_metadata, "name", "unknown"),
        pool |-> "N/A (IBM - no pool)",
        namespace |-> Get(cd_metadata, "namespace", "rhoai"),
        cluster_namespace |-> Get(cd_metadata, "namespace", "rhoai"),
        platform |-> IbmPlatform(labels, cd_spec),
        region |-> Get(labels, REGION_LABEL, "unknown"),
        version |-> Get(labels, VERSION_LABEL, "unknown"),
        state |-> ResolveState(Get(cd_status, "conditions", <<>>), power_state),
        power_state |-> power_state,
        api_url |-> api_url,
        console_url |-> DeriveConsoleUrl(api_url),
        infra_id |-> Get(cd_status, "infraID", "N/A"),
        cluster_id |-> Get(cd_metadata, "uid", "N/A"),
        pending |-> "N/A (IBM)"]

-----------------------------------------------------------------------------
(* Resource client: cluster_monitor_mcp/k8s/client.py *)

\* how the API server answers: "ok", an ApiException (an HTTP error status,
\* 403 when the identity lacks the permission), or an exception of the
\* transport that is no ApiException (connection refused, timeout)
ApiOutcome(store, scope) ==
    IF store.access = "down" THEN "Exception"
    ELSE IF store.access = "forbidden" THEN "ApiException"
    ELSE IF scope = "cluster" /\ store.access = "namespaced" THEN "ApiException"
    ELSE "ok"

InNamespace(objs, namespace) ==
    SelectSeq(objs, LAMBDA o : Get(Get(o, "metadata", <<>>), "namespace", "") = namespace)

list_namespaced_custom_object(store, namespace, plural) ==
    [outcome |-> ApiOutcome(store, "namespace"),
     body |-> [items |-> IF plural = "clusterclaims"
                         THEN (IF namespace = CLAIMS_NAMESPACE THEN store.claims ELSE <<>>)
                         ELSE InNamespace(store.deps, namespace)]]

list_cluster_custom_object(store, plural) ==
    [outcome |-> ApiOutcome(store, "cluster"),
     body |-> [items |-> store.deps]]

\* a pool that does not exist is answered with ApiException(404)
get_namespaced_custom_object(store, namespace, plural, name) ==
    LET found == SelectSeq(InNamespace(store.pools, namespace),
                           LAMBDA o : Get(Get(o, "metadata", <<>>), "name", "") = name)
    IN IF ApiOutcome(store, "namespace") = "ok" /\ found = <<>>
       THEN [outcome |-> "ApiException", body |-> None]
       ELSE [outcome |-> ApiOutcome(store, "namespace"),
             body |-> IF found = <<>> THEN None ELSE found[1]]

\* mutant: a bare except, which swallows the failures of the transport too
ExceptAnyException(outcome, value, fallback) ==
    IF outcome = "ok" THEN [raised |-> FALSE, value |-> value]
    ELSE [raised |-> FALSE, value |-> fallback]

\* try: return <value>  except ApiException: return <fallback>
ExceptApiException(outcome, value, fallback) ==
    IF outcome = "ok" THEN [raised |-> FALSE, value |-> value]
    ELSE IF outcome = "ApiException" THEN [raised |-> FALSE, value |-> fallback]
    ELSE [raised |-> TRUE, value |-> fallback]

get_clusterclaims(store, namespace) ==
    LET r == list_namespaced_custom_object(store, namespace, "clusterclaims")
    IN ExceptApiException(r.outcome, Get(r.body, "items", <<>>), <<>>)

get_clusterdeployments(store, namespace) ==
    LET r == list_namespaced_custom_object(store, namespace, "clusterdeployments")
    IN ExceptApiException(r.outcome, Get(r.body, "items", <<>>), <<>>)

get_all_clusterdeployments(store) ==
    LET r == list_cluster_custom_object(store, "clusterdeployments")
    IN ExceptApiException(r.outcome, Get(r.body, "items", <<>>), <<>>)

get_clusterpool(store, namespace, pool_name) ==
    LET r == get_namespaced_custom_object(store, namespace, "clusterpools", pool_name)
    IN ExceptApiException(r.outcome, r.body, None)

Call(op, namespace) == [op |-> op, namespace |-> namespace]

-----------------------------------------------------------------------------
(* Aggregator *)

ClaimNamespace(claim) == Get(Get(claim, "spec", <<>>), "namespace", "")

\* mutant: the first deployment of a namespace stays in the map
RECURSIVE IndexByNamespaceFirstWins(_, _)
IndexByNamespaceFirstWins(deps, map) ==
    IF deps = <<>> THEN map
    ELSE LET ns == Get(Get(Head(deps), "metadata", <<>>), "namespace", "")
         IN IndexByNamespaceFirstWins(Tail(deps),
                IF TruthyStr(ns) /\ ns \notin DOMAIN map THEN DictSet(map, ns, Head(deps)) ELSE map)

\* for dep in all_deployments: deployments_by_namespace[ns] = dep
RECURSIVE IndexByNamespace(_, _)
IndexByNamespace(deps, map) ==
    IF deps = <<>> THEN map
    ELSE LET ns == Get(Get(Head(deps), "metadata", <<>>), "namespace", "")
         IN IndexByNamespace(Tail(deps),
                IF TruthyStr(ns) THEN DictSet(map, ns, Head(deps)) ELSE map)

\* mutant: the fallback loop asks for the deployments and records none
RECURSIVE FetchPerNamespaceUnrecorded(_, _, _)
FetchPerNamespaceUnrecorded(store, claims, acc) ==
    IF claims = <<>> \/ acc.raised THEN acc
    ELSE LET cluster_namespace == ClaimNamespace(Head(claims))
         IN IF TruthyStr(cluster_namespace) /\ cluster_namespace \notin DOMAIN acc.map
            THEN LET deps == get_clusterdeployments(store, cluster_namespace)
                 IN FetchPerNamespaceUnrecorded(store, Tail(claims),
                        [map |-> acc.map,
                         calls |-> Append(acc.calls, Call("get_clusterdeployments", cluster_namespace)),
                         raised |-> deps.raised])
            ELSE FetchPerNamespaceUnrecorded(store, Tail(claims), acc)

\* the fallback loop over the claims; acc = [map, calls, raised]
RECURSIVE FetchPerNamespace(_, _, _)
FetchPerNamespace(store, claims, acc) ==
    IF claims = <<>> \/ acc.raised THEN acc
    ELSE LET cluster_namespace == ClaimNamespace(Head(claims))
         IN IF TruthyStr(cluster_namespace) /\ cluster_namespace \notin DOMAIN acc.map
            THEN LET deps == get_clusterdeployments(store, cluster_namespace)
                 IN FetchPerNamespace(store, Tail(claims),
                        [map |-> IF ~deps.raised /\ Truthy(deps.value)
                                 THEN DictSet(acc.map, cluster_namespace, deps.value[1])
                                 ELSE acc.map,
                         calls |-> Append(acc.calls, Call("get_clusterdeployments", cluster_namespace)),
                         raised |-> deps.raised])
            ELSE FetchPerNamespace(store, Tail(claims), acc)

Raised(done) ==
    [raised |-> TRUE, clusterclaims |-> <<>>, deployments_by_namespace |-> <<>>,
     ibm_clusters |-> <<>>, calls |-> done]

get_all_cluster_data(store) ==
    LET clusterclaims == get_clusterclaims(store, "rhoai")
        c1 == <<Call("get_clusterclaims", "rhoai")>>
    IN IF clusterclaims.raised THEN Raised(c1)
       ELSE
       LET all_deployments == get_all_clusterdeployments(store)
           c2 == Append(c1, Call("get_all_clusterdeployments", ""))
       IN IF all_deployments.raised THEN Raised(c2)
          ELSE
          LET joined == IF Truthy(all_deployments.value)
                        THEN [map |-> IndexByNamespace(all_deployments.value, <<>>),
                              calls |-> c2, raised |-> FALSE]
                        ELSE FetchPerNamespace(store, clusterclaims.value,
                                               [map |-> <<>>, calls |-> c2, raised |-> FALSE])
          IN IF joined.raised THEN Raised(joined.calls)
             ELSE
             LET ibm_clusters == get_clusterdeployments(store, "rhoai")
                 c3 == Append(joined.calls, Call("get_clusterdeployments", "rhoai"))
             IN IF ibm_clusters.raised THEN Raised(c3)
                ELSE [raised |-> FALSE,
                      clusterclaims |-> clusterclaims.value,
                      deployments_by_namespace |-> joined.map,
                      ibm_clusters |-> ibm_clusters.value,
                      calls |-> c3]

-----------------------------------------------------------------------------
(* Query layer: list_all_clusters *)

\* mutant: a claim whose deployment is missing is left out of the fleet
RECURSIVE ClaimViewsDeployedOnly(_, _)
ClaimViewsDeployedOnly(clusterclaims, deployments_by_namespace) ==
    IF clusterclaims = <<>> THEN <<>>
    ELSE LET claim == Head(clusterclaims)
             cluster_namespace == ClaimNamespace(claim)
             deployment == Get(deployments_by_namespace, cluster_namespace, None)
         IN (IF TruthyStr(cluster_namespace) /\ Truthy(deployment)
             THEN <<extract_cluster_info(claim, deployment)>>
             ELSE <<>>)
            \o ClaimViewsDeployedOnly(Tail(clusterclaims), deployments_by_namespace)

\* the loop over the claims: one view per claim that has a namespace
RECURSIVE ClaimViews(_, _)
ClaimViews(clusterclaims, deployments_by_namespace) ==
    IF clusterclaims = <<>> THEN <<>>
    ELSE LET claim == Head(clusterclaims)
             cluster_namespace == ClaimNamespace(claim)
             deployment == Get(deployments_by_namespace, cluster_namespace, None)
         IN (IF TruthyStr(cluster_namespace)
             THEN (IF Truthy(deployment)
                   THEN <<extract_cluster_info(claim, deployment)>>
                   ELSE <<extract_cluster_info(claim, None)>>)
             ELSE <<>>)
            \o ClaimViews(Tail(clusterclaims), deployments_by_namespace)

IbmViews(ibm_clusters) ==
    [i \in 1..Len(ibm_clusters) |-> extract_ibm_cluster_info(ibm_clusters[i])]

\* mutant: the filter compares without lowering the case
ApplyFilterCaseSensitive(clusters, flt, field) ==
    IF TruthyStr(flt)
    THEN SelectSeq(clusters, LAMBDA c : Contains(flt, Get(c, field, "")))
    ELSE clusters

\* if flt: [c for c in clusters if flt.lower() in c.get(field, "").lower()]
ApplyFilter(clusters, flt, field) ==
    IF TruthyStr(flt)
    THEN SelectSeq(clusters, LAMBDA c : Contains(Lower(flt), Lower(Get(c, field, ""))))
    ELSE clusters

NameKey(c) == Get(c, "name", "")

RECURSIVE InsertByName(_, _)
InsertByName(sorted, x) ==
    IF sorted = <<>> THEN <<x>>
    ELSE IF StrLess(NameKey(x), NameKey(Head(sorted))) THEN <<x>> \o sorted
    ELSE <<Head(sorted)>> \o InsertByName(Tail(sorted), x)

\* list.sort(key=name): ascending and stable
RECURSIVE SortByName(_)
SortByName(clusters) ==
    IF clusters = <<>> THEN <<>>
    ELSE InsertByName(SortByName(SubSeq(clusters, 1, Len(clusters) - 1)),
                      clusters[Len(clusters)])

AllClusters(data) ==
    ClaimViews(data.clusterclaims, data.deployments_by_namespace) \o IbmViews(data.ibm_clusters)

FilterClusters(all_clusters, f) ==
    ApplyFilter(
      ApplyFilter(
        ApplyFilter(
          ApplyFilter(
            ApplyFilter(all_clusters, f.platform_filter, "platform"),
            f.name_filter, "name"),
          f.state_filter, "state"),
        f.region_filter, "region"),
      f.owner_filter, "owner")

\* mutant: a listing asked again with the same arguments is answered from the
\* previous answer, without a request to the store
list_all_clusters_cached(store, f) ==
    LET data == get_all_cluster_data(store)
        filtered_clusters == SortByName(FilterClusters(AllClusters(data), f))
    IN IF result.op = "list_all_clusters" /\ result.args = f /\ ~result.raised
       THEN [raised |-> FALSE, value |-> result.value, calls |-> <<>>]
       ELSE IF data.raised THEN [raised |-> TRUE, value |-> None, calls |-> data.calls]
       ELSE [raised |-> FALSE,
             value |-> [total |-> Len(filtered_clusters),
                        clusters |-> IF f.include_details
                                     THEN filtered_clusters
                                     ELSE [i \in 1..Len(filtered_clusters) |->
                                              Get(filtered_clusters[i], "name", "unknown")]],
             calls |-> data.calls]

\* an Optional[str] argument that is None is "" here: the code only tests its truth
list_all_clusters(store, f) ==
    LET data == get_all_cluster_data(store)
        filtered_clusters == SortByName(FilterClusters(AllClusters(data), f))
    IN IF data.raised THEN [raised |-> TRUE, value |-> None, calls |-> data.calls]
       ELSE [raised |-> FALSE,
             value |-> [total |-> Len(filtered_clusters),
                        clusters |-> IF f.include_details
                                     THEN filtered_clusters
                                     ELSE [i \in 1..Len(filtered_clusters) |->
                                              Get(filtered_clusters[i], "name", "unknown")]],
             calls |-> data.calls]

-----------------------------------------------------------------------------
(* Query layer: get_cluster_details *)

ClaimNameMatches(claim, search_name) ==
    LET claim_name_lower == Lower(Get(Get(claim, "metadata", <<>>), "name", ""))
    IN \/ claim_name_lower = search_name
       \/ claim_name_lower = search_name \o "-claim"
       \/ StartsWith(claim_name_lower, search_name \o "-")

NamespaceMatches(claim, search_name) ==
    LET ns == Lower(ClaimNamespace(claim))
    IN ns = search_name \/ StartsWith(ns, search_name \o "-")

IbmNameMatches(deployment, search_name) ==
    LET ibm_name == Lower(Get(Get(deployment, "metadata", <<>>), "name", ""))
    IN ibm_name = search_name \/ StartsWith(ibm_name, search_name \o "-")

Returned(value, done) == [found |-> TRUE, raised |-> FALSE, value |-> value, calls |-> done]

Thrown(done) == [found |-> FALSE, raised |-> TRUE, value |-> None, calls |-> done]

Missed(done) == [found |-> FALSE, raised |-> FALSE, value |-> None, calls |-> done]

\* mutant: a claim matched by name is passed over while it has no deployment
RECURSIVE FindByClaimNameDeployedOnly(_, _, _, _)
FindByClaimNameDeployedOnly(store, claims, search_name, done) ==
    IF claims = <<>> THEN Missed(done)
    ELSE LET claim == Head(claims)
             cluster_namespace == ClaimNamespace(claim)
         IN IF ClaimNameMatches(claim, search_name) /\ TruthyStr(cluster_namespace)
            THEN LET deployments == get_clusterdeployments(store, cluster_namespace)
                     now == Append(done, Call("get_clusterdeployments", cluster_namespace))
                 IN IF deployments.raised THEN Thrown(now)
                    ELSE IF Truthy(deployments.value)
                    THEN Returned(DictUpdate(extract_cluster_info(claim, deployments.value[1]),
                                    [claim |-> claim, deployment |-> deployments.value[1]]), now)
                    ELSE FindByClaimNameDeployedOnly(store, Tail(claims), search_name, now)
            ELSE FindByClaimNameDeployedOnly(store, Tail(claims), search_name, done)

\* first loop: claims matched by name
RECURSIVE FindByClaimName(_, _, _, _)
FindByClaimName(store, claims, search_name, done) ==
    IF claims = <<>> THEN Missed(done)
    ELSE LET claim == Head(claims)
             cluster_namespace == ClaimNamespace(claim)
         IN IF ClaimNameMatches(claim, search_name) /\ TruthyStr(cluster_namespace)
            THEN LET deployments == get_clusterdeployments(store, cluster_namespace)
                     now == Append(done, Call("get_clusterdeployments", cluster_namespace))
                 IN IF deployments.raised THEN Thrown(now)
                    ELSE IF Truthy(deployments.value)
                    THEN Returned(DictUpdate(extract_cluster_info(claim, deployments.value[1]),
                                    [claim |-> claim, deployment |-> deployments.value[1]]), now)
                    ELSE Returned(DictUpdate(extract_cluster_info(claim, None),
                                    [claim |-> claim]), now)
            ELSE FindByClaimName(store, Tail(claims), search_name, done)

\* second loop: claims matched by cluster namespace
RECURSIVE FindByNamespace(_, _, _, _)
FindByNamespace(store, claims, search_name, done) ==
    IF claims = <<>> THEN Missed(done)
    ELSE LET claim == Head(claims)
             cluster_namespace == ClaimNamespace(claim)
         IN IF NamespaceMatches(claim, search_name)
            THEN LET deployments == get_clusterdeployments(store, cluster_namespace)
                     now == Append(done, Call("get_clusterdeployments", cluster_namespace))
                 IN IF deployments.raised THEN Thrown(now)
                    ELSE IF Truthy(deployments.value)
                    THEN Returned(DictUpdate(extract_cluster_info(claim, deployments.value[1]),
                                    [claim |-> claim, deployment |-> deployments.value[1]]), now)
                    ELSE FindByNamespace(store, Tail(claims), search_name, now)
            ELSE FindByNamespace(store, Tail(claims), search_name, done)

\* third loop: deployments of the claims namespace
RECURSIVE FindIbm(_, _, _)
FindIbm(ibm_clusters, search_name, done) ==
    IF ibm_clusters = <<>> THEN Missed(done)
    ELSE IF IbmNameMatches(Head(ibm_clusters), search_name)
    THEN Returned(DictUpdate(extract_ibm_cluster_info(Head(ibm_clusters)),
                    [deployment |-> Head(ibm_clusters)]), done)
    ELSE FindIbm(Tail(ibm_clusters), search_name, done)

NotFound(cluster_name) ==
    [error |-> "Cluster '" \o cluster_name \o "' not found",
     hint |-> "Try using list_all_clusters to see available clusters."]

get_cluster_details(store, cluster_name) ==
    LET search_name == Strip(Lower(cluster_name))
        clusterclaims == get_clusterclaims(store, "rhoai")
        c1 == <<Call("get_clusterclaims", "rhoai")>>
    IN IF clusterclaims.raised THEN Thrown(c1)
       ELSE
       LET byName == FindByClaimName(store, clusterclaims.value, search_name, c1)
       IN IF byName.found \/ byName.raised THEN byName
          ELSE
          LET byNs == FindByNamespace(store, clusterclaims.value, search_name, byName.calls)
          IN IF byNs.found \/ byNs.raised THEN byNs
             ELSE
             LET ibm_clusters == get_clusterdeployments(store, "rhoai")
                 c3 == Append(byNs.calls, Call("get_clusterdeployments", "rhoai"))
             IN IF ibm_clusters.raised THEN Thrown(c3)
                ELSE LET byIbm == FindIbm(ibm_clusters.value, search_name, c3)
                     IN IF byIbm.found THEN byIbm
                        ELSE [found |-> FALSE, raised |-> FALSE,
                              value |-> NotFound(cluster_name), calls |-> c3]

-----------------------------------------------------------------------------
(* Query layer: get_cluster_count_by_platform, get_cluster_count_by_state *)

\* the views the two count tools aggregate: claims that have a deployment,
\* then the deployments of the claims namespace
RECURSIVE JoinedViews(_, _)
JoinedViews(clusterclaims, deployments_by_namespace) ==
    IF clusterclaims = <<>> THEN <<>>
    ELSE LET claim == Head(clusterclaims)
             cluster_namespace == ClaimNamespace(claim)
             deployment == Get(deployments_by_namespace, cluster_namespace, None)
         IN (IF TruthyStr(cluster_namespace) /\ Truthy(deployment)
             THEN <<extract_cluster_info(claim, deployment)>>
             ELSE <<>>)
            \o JoinedViews(Tail(clusterclaims), deployments_by_namespace)

CountedViews(data) ==
    JoinedViews(data.clusterclaims, data.deployments_by_namespace) \o IbmViews(data.ibm_clusters)

\* platform_stats[platform][state] += 1 for every view
RECURSIVE PlatformStats(_, _)
PlatformStats(views, platform_stats) ==
    IF views = <<>> THEN platform_stats
    ELSE LET platform == Get(Head(views), "platform", "unknown")
             state == Get(Head(views), "state", "Unknown")
             states == Get(platform_stats, platform, <<>>)
         IN PlatformStats(Tail(views),
                DictSet(platform_stats, platform,
                        DictSet(states, state, Get(states, state, 0) + 1)))

\* state_stats[state].append(name) for every view
RECURSIVE StateStats(_, _)
StateStats(views, state_stats) ==
    IF views = <<>> THEN state_stats
    ELSE LET state == Get(Head(views), "state", "Unknown")
             name == Get(Head(views), "name", "unknown")
         IN StateStats(Tail(views),
                DictSet(state_stats, state, Append(Get(state_stats, state, <<>>), name)))

RECURSIVE InsertStr(_, _)
InsertStr(sorted, x) ==
    IF sorted = <<>> THEN <<x>>
    ELSE IF StrLess(x, Head(sorted)) THEN <<x>> \o sorted
    ELSE <<Head(sorted)>> \o InsertStr(Tail(sorted), x)

\* sorted(names)
RECURSIVE Sorted(_)
Sorted(names) ==
    IF names = <<>> THEN <<>>
    ELSE InsertStr(Sorted(SubSeq(names, 1, Len(names) - 1)), names[Len(names)])

\* sum(f[k] for k in keys)
RECURSIVE SumOver(_, _)
SumOver(f, keys) ==
    IF keys = {} THEN 0
    ELSE LET k == CHOOSE x \in keys : TRUE
         IN f[k] + SumOver(f, keys \ {k})

get_cluster_count_by_platform(store) ==
    LET data == get_all_cluster_data(store)
        platform_stats == PlatformStats(CountedViews(data), <<>>)
        per_platform == [p \in DOMAIN platform_stats |->
                            SumOver(platform_stats[p], DOMAIN platform_stats[p])]
    IN IF data.raised THEN [raised |-> TRUE, value |-> None, calls |-> data.calls]
       ELSE [raised |-> FALSE,
             value |-> [total |-> SumOver(per_platform, DOMAIN per_platform),
                        by_platform |-> platform_stats],
             calls |-> data.calls]

get_cluster_count_by_state(store) ==
    LET data == get_all_cluster_data(store)
        grouped == StateStats(CountedViews(data), <<>>)
        state_stats == [st \in DOMAIN grouped |-> Sorted(grouped[st])]
        sizes == [st \in DOMAIN state_stats |-> Len(state_stats[st])]
    IN IF data.raised THEN [raised |-> TRUE, value |-> None, calls |-> data.calls]
       ELSE [raised |-> FALSE,
             value |-> [total |-> SumOver(sizes, DOMAIN sizes),
                        by_state |-> [st \in DOMAIN state_stats |->
                                        [count |-> Len(state_stats[st]),
                                         clusters |-> state_stats[st]]]],
             calls |-> data.calls]

-----------------------------------------------------------------------------
(* Query layer: get_cluster_owners *)

\* owner_counts, a dict in insertion order: a sequence of entries
RECURSIVE OwnerCounts(_, _)
OwnerCounts(clusterclaims, owner_counts) ==
    IF clusterclaims = <<>> THEN owner_counts
    ELSE LET owner == Get(Get(Get(Head(clusterclaims), "metadata", <<>>), "labels", <<>>),
                          "owner", "")
             at == {i \in 1..Len(owner_counts) : owner_counts[i].name = owner}
         IN OwnerCounts(Tail(clusterclaims),
                IF ~TruthyStr(owner) THEN owner_counts
                ELSE IF at = {}
                THEN Append(owner_counts, [name |-> owner, cluster_count |-> 1])
                ELSE [i \in 1..Len(owner_counts) |->
                         IF i \in at
                         THEN [owner_counts[i] EXCEPT !.cluster_count = @ + 1]
                         ELSE owner_counts[i]])

\* mutant: the tie on the count is broken by the name as written
OwnerBeforeCaseSensitive(x, y) ==
    \/ x.cluster_count > y.cluster_count
    \/ x.cluster_count = y.cluster_count /\ StrLess(x.name, y.name)

\* key(x) < key(y) for key = (-cluster_count, name.lower())
OwnerBefore(x, y) ==
    \/ x.cluster_count > y.cluster_count
    \/ x.cluster_count = y.cluster_count /\ StrLess(Lower(x.name), Lower(y.name))

RECURSIVE InsertOwner(_, _)
InsertOwner(sorted, x) ==
    IF sorted = <<>> THEN <<x>>
    ELSE IF OwnerBefore(x, Head(sorted)) THEN <<x>> \o sorted
    ELSE <<Head(sorted)>> \o InsertOwner(Tail(sorted), x)

\* sorted(entries, key=...): ascending in the key and stable
RECURSIVE SortOwners(_)
SortOwners(entries) ==
    IF entries = <<>> THEN <<>>
    ELSE InsertOwner(SortOwners(SubSeq(entries, 1, Len(entries) - 1)), entries[Len(entries)])

get_cluster_owners(store) ==
    LET clusterclaims == get_clusterclaims(store, "rhoai")
        done == <<Call("get_clusterclaims", "rhoai")>>
        sorted_owners == SortOwners(OwnerCounts(clusterclaims.value, <<>>))
    IN IF clusterclaims.raised THEN [raised |-> TRUE, value |-> None, calls |-> done]
       ELSE [raised |-> FALSE,
             value |-> [total_owners |-> Len(sorted_owners), owners |-> sorted_owners],
             calls |-> done]

-----------------------------------------------------------------------------
(* Query layer: test_hive_connection *)

\* mutant: the tool without its except branch
test_hive_connection_unguarded(store) ==
    LET clusterclaims == get_clusterclaims(store, "rhoai")
    IN [raised |-> clusterclaims.raised,
        value |-> [success |-> TRUE,
                   message |-> "Successfully connected to Hive cluster",
                   cluster_claims_count |-> Len(clusterclaims.value)],
        calls |-> <<Call("get_clusterclaims", "rhoai")>>]

\* try: ... return {success: True, ...}  except Exception as e: return {success: False, ...}
test_hive_connection(store) ==
    LET clusterclaims == get_clusterclaims(store, "rhoai")
    IN [raised |-> FALSE,
        value |-> IF clusterclaims.raised
                  THEN [success |-> FALSE, error |-> "Exception"]
                  ELSE [success |-> TRUE,
                        message |-> "Successfully connected to Hive cluster",
                        cluster_claims_count |-> Len(clusterclaims.value)],
        calls |-> <<Call("get_clusterclaims", "rhoai")>>]

-----------------------------------------------------------------------------
(* Connection handle *)

\* get_hive_client(): the global after the call
get_hive_client(handle) == IF handle = "None" THEN "HiveClusterClient" ELSE handle

-----------------------------------------------------------------------------
(* The remote store's records *)

Cond(type, status) == [type |-> type, status |-> status]

MkClaim(name, namespace, owner, conditions) ==
    [metadata |-> [name |-> name,
                   namespace |-> "rhoai",
                   labels |-> IF owner = "" THEN <<>> ELSE [owner |-> owner]],
     spec |-> IF namespace = "" THEN [clusterPoolName |-> "rhoai-pool"]
              ELSE [clusterPoolName |-> "rhoai-pool", namespace |-> namespace],
     status |-> IF conditions = <<>> THEN <<>> ELSE [conditions |-> conditions]]

Labels(platform, region) ==
    IF platform = "" THEN <<>>
    ELSE (PLATFORM_LABEL :> platform) @@ (REGION_LABEL :> region) @@ (VERSION_LABEL :> "4.14.1")

MkDeployment(name, namespace, labels, spec, conditions, api_url) ==
    [metadata |-> [name |-> name, namespace |-> namespace, labels |-> labels,
                   uid |-> "uid-" \o name],
     spec |-> spec,
     status |-> IF api_url = "" THEN [conditions |-> conditions]
                ELSE [conditions |-> conditions, apiURL |-> api_url, infraID |-> name \o "-infra"]]

ClaimFooX ==
    MkClaim("foo-x", "foo-ns", "John_Smith", <<[type |-> "Pending", reason |-> "NoClusters"]>>)

ClaimFoo == MkClaim("foo", "bar-ns", "jane_doe", <<>>)

ClaimFooClaim == MkClaim("foo-claim", "", "", <<[type |-> "Pending"]>>)

ClaimZed ==
    MkClaim("Zed-claim", "foo-9k", "John_Smith", <<[type |-> "Pending", reason |-> "ClusterClaimed"]>>)

ClaimUniverse == {ClaimFooX, ClaimFoo, ClaimFooClaim, ClaimZed}

\* a second claim that names the namespace of ClaimFooX
ClaimFooTwin == MkClaim("foo-y", "foo-ns", "jane_doe", <<>>)

\* the claims the aggregator is run on
FetchClaims == ClaimUniverse \cup {ClaimFooTwin}

DepFooNs ==
    MkDeployment("foo-ns-cd", "foo-ns", Labels("aws", "us-east-1"), [powerState |-> "Running"],
                 <<Cond("Ready", "True"), Cond("Hibernating", "True")>>,
                 "https://api.foo.bar.example.com:6443")

DepBarNs ==
    MkDeployment("bar-ns-cd", "bar-ns", Labels("gcp", "us-east1"), [powerState |-> "Hibernating"],
                 <<Cond("Hibernating", "True"), Cond("Ready", "True")>>,
                 "https://api.bar.gcp.example.com:6443")

DepFoo9k ==
    MkDeployment("foo-9k-cd", "foo-9k", Labels("", ""), [powerState |-> "Running"],
                 <<Cond("Ready", "False")>>, "")

DepIbm ==
    MkDeployment("foo-ibm", "rhoai", Labels("", ""), [platform |-> [ibmcloud |-> <<>>]],
                 <<Cond("Resuming", "True")>>, "https://localhost:6443")

DepUniverse == {DepFooNs, DepBarNs, DepFoo9k, DepIbm}

\* a second deployment in the namespace of DepFooNs
DepFooNsOld ==
    MkDeployment("foo-ns-old", "foo-ns", Labels("aws", "us-west-2"), [powerState |-> "Hibernating"],
                 <<Cond("Hibernating", "True")>>, "")

\* the deployments the aggregator is run on
FetchDeps == DepUniverse \cup {DepFooNsOld}

Pool == [metadata |-> [name |-> "rhoai-pool", namespace |-> "rhoai"], spec |-> [size |-> 2]]

AccessModes == {"full", "namespaced", "forbidden", "down"}

NoFilters ==
    [platform_filter |-> "", name_filter |-> "", state_filter |-> "", region_filter |-> "",
     owner_filter |-> ""]

FilterCases ==
    {NoFilters,
     [NoFilters EXCEPT !.platform_filter = "AWS"],
     [NoFilters EXCEPT !.owner_filter = "john"],
     [NoFilters EXCEPT !.region_filter = "East", !.state_filter = "ing"],
     [NoFilters EXCEPT !.name_filter = "FOO", !.owner_filter = "SMITH", !.platform_filter = "unknown"]}

SearchNames == {"foo", " ZED", "bar", "nope"}

-----------------------------------------------------------------------------
(* State machine *)

Idle == [op |-> "idle", args |-> <<>>, raised |-> FALSE, value |-> None]

NameOf(o) == Get(Get(o, "metadata", <<>>), "name", "")

Range(seq) == {seq[i] : i \in DOMAIN seq}

Init ==
    /\ remote = [claims |-> <<>>, deps |-> <<>>, pools |-> <<>>, access |-> "full"]
    /\ hive_client = "None"
    /\ calls = <<>>
    /\ result = Idle

\* the provisioning workflow files a claim
CreateClaim(c) ==
    /\ Len(remote.claims) < MaxClaims
    /\ c \notin Range(remote.claims)
    /\ remote' = [remote EXCEPT !.claims = Append(@, c)]
    /\ calls' = <<>>
    /\ result' = Idle
    /\ UNCHANGED hive_client

\* the provisioning workflow creates a deployment
CreateDeployment(d) ==
    /\ Len(remote.deps) < MaxDeps
    /\ d \notin Range(remote.deps)
    /\ remote' = [remote EXCEPT !.deps = Append(@, d)]
    /\ calls' = <<>>
    /\ result' = Idle
    /\ UNCHANGED hive_client

\* the permissions of the monitoring identity, or the network, change
SetAccess(a) ==
    /\ a # remote.access
    /\ remote' = [remote EXCEPT !.access = a]
    /\ calls' = <<>>
    /\ result' = Idle
    /\ UNCHANGED hive_client

\* get_all_cluster_data(client) called on its own, with a handle already built
FetchAll ==
    LET data == get_all_cluster_data(remote)
    IN /\ calls' = data.calls
       /\ result' = [op |-> "get_all_cluster_data", args |-> <<>>, raised |-> data.raised,
                     value |-> [clusterclaims |-> data.clusterclaims,
                                deployments_by_namespace |-> data.deployments_by_namespace,
                                ibm_clusters |-> data.ibm_clusters]]
       /\ UNCHANGED <<remote, hive_client>>

\* get_hive_client() step by step, one run per invocation; calls is here the
\* trace of the steps taken, each with the invocation that took it
Step(op, t, handle) == [op |-> op, invocation |-> t, handle |-> handle]

StepsOf(t) == SelectSeq(calls, LAMBDA s : s.invocation = t)

\* the last step the invocation took, "" before its first
LastStep(t) == IF StepsOf(t) = <<>> THEN "" ELSE StepsOf(t)[Len(StepsOf(t))].op

Took(t, op) ==
    /\ calls' = Append(calls, Step(op, t, hive_client'))
    /\ UNCHANGED remote

\* mutant: the handle is built whatever the global holds
TestHandleBlind(t) ==
    /\ LastStep(t) = ""
    /\ UNCHANGED <<hive_client, result>>
    /\ Took(t, "is_none")

\* if _hive_client is None:
TestHandle(t) ==
    /\ LastStep(t) = ""
    /\ UNCHANGED <<hive_client, result>>
    /\ Took(t, IF hive_client = "None" THEN "is_none" ELSE "is_set")

\* HiveClusterClient(): the constructor runs to its end
Construct(t) ==
    /\ LastStep(t) = "is_none"
    /\ UNCHANGED <<hive_client, result>>
    /\ Took(t, "HiveClusterClient")

\* _hive_client = <the object built>
Store(t) ==
    /\ LastStep(t) = "HiveClusterClient"
    /\ hive_client' = "HiveClusterClient"
    /\ UNCHANGED result
    /\ Took(t, "store")

\* return _hive_client
Return(t) ==
    /\ LastStep(t) \in {"is_set", "store"}
    /\ UNCHANGED hive_client
    /\ result' = [op |-> "get_hive_client", args |-> [invocation |-> t], raised |-> FALSE,
                  value |-> hive_client]
    /\ Took(t, "return")

\* mutant: the handler also deletes the claims that have no namespace
RespondAndPrune(op, args, r) ==
    /\ hive_client' = get_hive_client(hive_client)
    /\ calls' = Append(r.calls, Call("delete_clusterclaims", "rhoai"))
    /\ result' = [op |-> op, args |-> args, raised |-> r.raised, value |-> r.value]
    /\ remote' = [remote EXCEPT !.claims = SelectSeq(@, LAMBDA c : ClaimNamespace(c) # "")]

Respond(op, args, r) ==
    /\ hive_client' = get_hive_client(hive_client)
    /\ calls' = r.calls
    /\ result' = [op |-> op, args |-> args, raised |-> r.raised, value |-> r.value]
    /\ UNCHANGED remote

ListClusters(f, include_details) ==
    LET args == [platform_filter |-> f.platform_filter, name_filter |-> f.name_filter,
                 state_filter |-> f.state_filter, region_filter |-> f.region_filter,
                 owner_filter |-> f.owner_filter, include_details |-> include_details]
    IN Respond("list_all_clusters", args, list_all_clusters(remote, args))

GetClusterDetails(cluster_name) ==
    Respond("get_cluster_details", [cluster_name |-> cluster_name],
            get_cluster_details(remote, cluster_name))

CountByPlatform ==
    Respond("get_cluster_count_by_platform", <<>>, get_cluster_count_by_platform(remote))

CountByState ==
    Respond("get_cluster_count_by_state", <<>>, get_cluster_count_by_state(remote))

ListOwners ==
    Respond("get_cluster_owners", <<>>, get_cluster_owners(remote))

TestConnection ==
    Respond("test_hive_connection", <<>>, test_hive_connection(remote))

Env ==
    \/ \E c \in ClaimUniverse : CreateClaim(c)
    \/ \E d \in DepUniverse : CreateDeployment(d)
    \/ \E a \in AccessModes : SetAccess(a)

Next ==
    \/ Env
    \/ \E f \in FilterCases, include_details \in BOOLEAN : ListClusters(f, include_details)
    \/ \E n \in SearchNames : GetClusterDetails(n)
    \/ CountByPlatform
    \/ CountByState
    \/ ListOwners
    \/ TestConnection

Spec == Init /\ [][Next]_vars

\* the fleet under list_all_clusters alone
NextList ==
    \/ Env
    \/ \E f \in FilterCases, include_details \in BOOLEAN : ListClusters(f, include_details)

SpecList == Init /\ [][NextList]_vars

\* the fleet under get_cluster_details alone
NextDetails ==
    \/ Env
    \/ \E n \in SearchNames : GetClusterDetails(n)

SpecDetails == Init /\ [][NextDetails]_vars

\* the fleet under the two count tools
NextCount ==
    \/ Env
    \/ CountByPlatform
    \/ CountByState

SpecCount == Init /\ [][NextCount]_vars

\* the store changes while the caller still holds the previous answer
Drift ==
    /\ \/ \E c \in ClaimUniverse :
             /\ Len(remote.claims) < MaxClaims
             /\ c \notin Range(remote.claims)
             /\ remote' = [remote EXCEPT !.claims = Append(@, c)]
       \/ \E d \in DepUniverse :
             /\ Len(remote.deps) < MaxDeps
             /\ d \notin Range(remote.deps)
             /\ remote' = [remote EXCEPT !.deps = Append(@, d)]
       \/ \E a \in AccessModes :
             /\ a # remote.access
             /\ remote' = [remote EXCEPT !.access = a]
    /\ UNCHANGED <<hive_client, calls, result>>

\* list_all_clusters() asked again and again while the store changes
NextRequery ==
    \/ Drift
    \/ \E include_details \in BOOLEAN : ListClusters(NoFilters, include_details)

SpecRequery == Init /\ [][NextRequery]_vars

\* the six tools side by side, list_all_clusters without filters
NextQueries ==
    \/ Env
    \/ \E include_details \in BOOLEAN : ListClusters(NoFilters, include_details)
    \/ \E n \in SearchNames : GetClusterDetails(n)
    \/ CountByPlatform
    \/ CountByState
    \/ ListOwners
    \/ TestConnection

SpecQueries == Init /\ [][NextQueries]_vars

\* the aggregator on its own, over claims that may share a namespace and
\* namespaces that may hold two deployments
NextFetch ==
    \/ \E c \in FetchClaims : CreateClaim(c)
    \/ \E d \in FetchDeps : CreateDeployment(d)
    \/ \E a \in AccessModes : SetAccess(a)
    \/ FetchAll

SpecFetch == Init /\ [][NextFetch]_vars

\* invocations of get_hive_client(), interleaved in any way
NextHandle ==
    \E t \in 1..MaxInvocations :
        \/ TestHandle(t)
        \/ Construct(t)
        \/ Store(t)
        \/ Return(t)

SpecHandle == Init /\ [][NextHandle]_vars

\* the fleet under get_cluster_owners and test_hive_connection
NextProbe ==
    \/ Env
    \/ ListOwners
    \/ TestConnection

SpecProbe == Init /\ [][NextProbe]_vars

-----------------------------------------------------------------------------
(* The cluster-view builders on their own: one claim and one deployment,    *)
(* drawn from the shapes a record of the store can take                     *)

CondUniverse ==
    {Cond("Hibernating", "True"), Cond("Ready", "True"), Cond("ProvisionStopped", "True"),
     Cond("Resuming", "True"), Cond("Ready", "False"), Cond("Hibernating", "False"),
     Cond("Progressing", "True")}

RECURSIVE SeqsUpTo(_, _)
SeqsUpTo(S, n) ==
    IF n = 0 THEN {<<>>}
    ELSE LET shorter == SeqsUpTo(S, n - 1)
         IN shorter \cup {Append(q, x) : q \in shorter, x \in S}

ApiUrls ==
    {"", "https://api.foo.bar.example.com:6443", "not-a-url", "api.foo.example.com:6443",
     "https://api.foo.example.com", "https://localhost:6443"}

BuildSpecs == {<<>>, [powerState |-> "Running"], [powerState |-> "Hibernating"]}

BuildDeps ==
    {MkDeployment("cd", "foo-ns", Labels("aws", "us-east-1"), sp, conds, url) :
        sp \in BuildSpecs, conds \in SeqsUpTo(CondUniverse, MaxConds), url \in ApiUrls}

\* deployments of the claims namespace: with the platform label, with an empty
\* one or without it, and with a platform map in the spec, an empty one or none
IbmLabels == {Labels("", ""), Labels("aws", "us-east-1"), (PLATFORM_LABEL :> "")}

IbmSpecs ==
    {<<>>, [platform |-> <<>>], [platform |-> [ibmcloud |-> <<>>]],
     [platform |-> [ibmcloud |-> <<>>], powerState |-> "Running"]}

IbmDeps ==
    {MkDeployment("foo-ibm", "rhoai", labels, sp, <<Cond("Ready", "True")>>, "") :
        labels \in IbmLabels, sp \in IbmSpecs}

InitBuild ==
    /\ \E c \in ClaimUniverse, d \in BuildDeps \cup IbmDeps :
          remote = [claims |-> <<c>>, deps |-> <<d>>, pools |-> <<>>, access |-> "full"]
    /\ hive_client = "None"
    /\ calls = <<>>
    /\ result = Idle

Built(op, view) ==
    /\ result' = [op |-> op, args |-> <<>>, raised |-> FALSE, value |-> view]
    /\ UNCHANGED <<remote, hive_client, calls>>

BuildFromClaim ==
    Built("extract_cluster_info", extract_cluster_info(remote.claims[1], remote.deps[1]))

BuildFromClaimAlone ==
    Built("extract_cluster_info_no_deployment", extract_cluster_info(remote.claims[1], None))

BuildFromIBMDeployment ==
    Built("extract_ibm_cluster_info", extract_ibm_cluster_info(remote.deps[1]))

NextBuild == BuildFromClaim \/ BuildFromClaimAlone \/ BuildFromIBMDeployment

SpecBuild == InitBuild /\ [][NextBuild]_vars

-----------------------------------------------------------------------------
(* The resource client on its own *)

CreatePool ==
    /\ remote.pools = <<>>
    /\ remote' = [remote EXCEPT !.pools = <<Pool>>]
    /\ calls' = <<>>
    /\ result' = Idle
    /\ UNCHANGED hive_client

ClientCall(op, args, scope, r) ==
    /\ result' = [op |-> op, args |-> args, raised |-> r.raised, value |-> r.value,
                  outcome |-> ApiOutcome(remote, scope)]
    /\ calls' = <<Call(op, args.namespace)>>
    /\ UNCHANGED <<remote, hive_client>>

Namespaces == {"rhoai", "foo-ns", "bar-ns"}

CallGetClusterClaims ==
    ClientCall("get_clusterclaims", [namespace |-> "rhoai"], "namespace",
               get_clusterclaims(remote, "rhoai"))

CallGetClusterDeployments(ns) ==
    ClientCall("get_clusterdeployments", [namespace |-> ns], "namespace",
               get_clusterdeployments(remote, ns))

CallGetAllClusterDeployments ==
    ClientCall("get_all_clusterdeployments", [namespace |-> ""], "cluster",
               get_all_clusterdeployments(remote))

CallGetClusterPool(ns, name) ==
    ClientCall("get_clusterpool", [namespace |-> ns, pool_name |-> name], "namespace",
               get_clusterpool(remote, ns, name))

NextClient ==
    \/ Env
    \/ CreatePool
    \/ CallGetClusterClaims
    \/ \E ns \in Namespaces : CallGetClusterDeployments(ns)
    \/ CallGetAllClusterDeployments
    \/ \E name \in {"rhoai-pool", "no-such-pool"} : CallGetClusterPool("rhoai", name)

SpecClient == Init /\ [][NextClient]_vars

-----------------------------------------------------------------------------
(* C1: state resolution *)

BuiltFromDeployment == result.op \in {"extract_cluster_info", "extract_ibm_cluster_info"}

InputDeployment == remote.deps[1]

InputConditions == Get(Get(InputDeployment, "status", <<>>), "conditions", <<>>)

Recognised(c) ==
    /\ "type" \in DOMAIN c /\ "status" \in DOMAIN c
    /\ c.status = "True"
    /\ c.type \in {"Hibernating", "Ready", "ProvisionStopped", "Resuming"}

StateNamed(type) == IF type = "Ready" THEN "Running" ELSE type

\* C1: in every view built from a deployment, state is the state named by the
\* first condition, in list order, that is one of Hibernating/Ready/
\* ProvisionStopped/Resuming with status True (Ready names Running); when no
\* condition is one of them, state is the deployment's powerState verbatim.
C1_StateIsFirstMatch ==
    BuiltFromDeployment =>
        LET conds == InputConditions
            hits == {i \in 1..Len(conds) : Recognised(conds[i])}
        IN IF hits = {}
           THEN /\ result.value.state = result.value.power_state
                /\ "powerState" \in DOMAIN InputDeployment.spec
                      => result.value.state = InputDeployment.spec.powerState
           ELSE LET first == CHOOSE i \in hits : \A j \in hits : i <= j
                IN result.value.state = StateNamed(conds[first].type)

C1_Witness ==
    /\ BuiltFromDeployment
    /\ InputConditions = <<Cond("Ready", "True"), Cond("Hibernating", "True")>>
    /\ result.value.state = "Running"

-----------------------------------------------------------------------------
(* C2, C3: console URL derivation *)

InputApiUrl == Get(Get(InputDeployment, "status", <<>>), "apiURL", "N/A")

\* C2 as stated: the console URL of https://api.foo.bar.example.com:6443 is
\* https://console-openshift-console.apps.bar.example.com in both builders.
C2_Original ==
    (BuiltFromDeployment /\ InputApiUrl = "https://api.foo.bar.example.com:6443")
        => result.value.console_url = "https://console-openshift-console.apps.bar.example.com"

\* C2 amended: only the first label (api) is dropped, so the console URL of
\* https://api.foo.bar.example.com:6443 is
\* https://console-openshift-console.apps.foo.bar.example.com in both builders.
C2_ConsoleUrlDropsApiLabel ==
    (BuiltFromDeployment /\ InputApiUrl = "https://api.foo.bar.example.com:6443")
        => result.value.console_url = "https://console-openshift-console.apps.foo.bar.example.com"

C2_Witness ==
    /\ result.op = "extract_ibm_cluster_info"
    /\ InputApiUrl = "https://api.foo.bar.example.com:6443"
    /\ result.value.api_url = InputApiUrl

HostAndPort(url) == StrFrom(url, Find(url, "//") + 2)

NoSlashes(url) == ~Contains("//", url)

NoPort(url) == ~NoSlashes(url) /\ ~Contains(":", HostAndPort(url))

SingleLabelHost(url) ==
    /\ ~NoSlashes(url)
    /\ Contains(":", HostAndPort(url))
    /\ ~Contains(".", SubSeq(HostAndPort(url), 1, Find(HostAndPort(url), ":") - 1))

\* C3 as stated: an apiURL without "//", without ":" after the host, or whose
\* host has fewer than two labels, gives the console URL "N/A".
C3_Original ==
    (BuiltFromDeployment
       /\ (NoSlashes(InputApiUrl) \/ NoPort(InputApiUrl) \/ SingleLabelHost(InputApiUrl)))
        => result.value.console_url = "N/A"

-----------------------------------------------------------------------------
(* C4: soft failure of the resource client *)

ClientOps ==
    {"get_clusterclaims", "get_clusterdeployments", "get_all_clusterdeployments",
     "get_clusterpool"}

\* C4 as stated: whatever the failure of the remote access, permission or
\* network, a client operation returns its empty value and raises nothing.
C4_Original ==
    (result.op \in ClientOps /\ result.outcome # "ok")
        => (~result.raised /\ result.value = <<>>)

\* C4 amended: a failure the API reports as an ApiException (an error status
\* such as permission denied or not found) makes the operation return the
\* empty list (None for get_clusterpool) and raise nothing; a failure that is
\* no ApiException (the network is down) is raised to the caller.
C4_SoftFailOnApiException ==
    result.op \in ClientOps =>
        /\ result.outcome = "ApiException" => (~result.raised /\ result.value = <<>>)
        /\ result.outcome = "Exception" => result.raised
        /\ result.outcome = "ok" => ~result.raised

C4_Witness ==
    /\ result.op = "get_clusterdeployments"
    /\ result.args.namespace = "rhoai"
    /\ remote.access = "forbidden"
    /\ InNamespace(remote.deps, "rhoai") # <<>>
    /\ result.value = <<>>
    /\ ~result.raised

-----------------------------------------------------------------------------
(* What the monitoring identity can list *)

VisibleClaims == IF remote.access = "forbidden" THEN <<>> ELSE remote.claims

VisibleDeployments(namespace) ==
    IF remote.access = "forbidden" THEN <<>> ELSE InNamespace(remote.deps, namespace)

Listed == result.op = "list_all_clusters" /\ ~result.raised

Unfiltered ==
    /\ result.args.platform_filter = "" /\ result.args.name_filter = ""
    /\ result.args.state_filter = "" /\ result.args.region_filter = ""
    /\ result.args.owner_filter = ""

\* the names list_all_clusters returned, in order
ListedNames ==
    IF result.args.include_details
    THEN [k \in 1..Len(result.value.clusters) |-> result.value.clusters[k].name]
    ELSE result.value.clusters

Occurrences(x, seq) == Cardinality({k \in 1..Len(seq) : seq[k] = x})

-----------------------------------------------------------------------------
(* C5: the unfiltered listing *)

\* C5: list_all_clusters without filters returns exactly one view per listed
\* claim that has a targetNamespace, whether its deployment exists or not, one
\* per deployment of the claims namespace, and nothing else.
C5_OnePerClaimAndIbm ==
    (Listed /\ Unfiltered) =>
        LET withNs == {i \in 1..Len(VisibleClaims) : ClaimNamespace(VisibleClaims[i]) # ""}
            ibm == VisibleDeployments("rhoai")
            names == ListedNames
        IN /\ result.value.total = Cardinality(withNs) + Len(ibm)
           /\ Len(result.value.clusters) = result.value.total
           /\ \A i \in withNs : Occurrences(NameOf(VisibleClaims[i]), names) = 1
           /\ \A j \in 1..Len(ibm) : Occurrences(NameOf(ibm[j]), names) = 1
           /\ \A k \in 1..Len(names) :
                 \/ \E i \in withNs : names[k] = NameOf(VisibleClaims[i])
                 \/ \E j \in 1..Len(ibm) : names[k] = NameOf(ibm[j])

C5_Witness ==
    /\ Listed /\ Unfiltered
    /\ result.value.total = 2
    /\ \E i \in 1..Len(remote.claims) : ClaimNamespace(remote.claims[i]) = ""
    /\ \E i \in 1..Len(remote.claims) :
          /\ ClaimNamespace(remote.claims[i]) # ""
          /\ InNamespace(remote.deps, ClaimNamespace(remote.claims[i])) = <<>>
    /\ InNamespace(remote.deps, "rhoai") # <<>>

-----------------------------------------------------------------------------
(* C6: filters, order and the name-only form *)

Fleet == AllClusters(get_all_cluster_data(remote))

FilterOf(field) ==
    IF field = "platform" THEN result.args.platform_filter
    ELSE IF field = "name" THEN result.args.name_filter
    ELSE IF field = "state" THEN result.args.state_filter
    ELSE IF field = "region" THEN result.args.region_filter
    ELSE result.args.owner_filter

FilterFields == {"platform", "name", "state", "region", "owner"}

\* every filter supplied is a case-insensitive substring of the view's field
Passes(view) ==
    \A field \in FilterFields :
        \/ FilterOf(field) = ""
        \/ /\ field \in DOMAIN view
           /\ Contains(Lower(FilterOf(field)), Lower(view[field]))

-----------------------------------------------------------------------------
(* C7, C8: get_cluster_details *)

Detailed == result.op = "get_cluster_details" /\ ~result.raised

SearchName == Strip(Lower(result.args.cluster_name))

LowerName(o) == Lower(NameOf(o))

\* the earliest rule of (a), (b), (c) that a claim matches by name; 0 for none
NameRule(claim) ==
    IF LowerName(claim) = SearchName THEN 1
    ELSE IF LowerName(claim) = SearchName \o "-claim" THEN 2
    ELSE IF StartsWith(LowerName(claim), SearchName \o "-") THEN 3
    ELSE 0

\* rule (d)
NamespaceRule(claim) ==
    \/ Lower(ClaimNamespace(claim)) = SearchName
    \/ StartsWith(Lower(ClaimNamespace(claim)), SearchName \o "-")

\* rule (e)
IbmRule(deployment) ==
    \/ LowerName(deployment) = SearchName
    \/ StartsWith(LowerName(deployment), SearchName \o "-")

IsNotFound == "error" \in DOMAIN result.value

IsClaimRecord == "claim" \in DOMAIN result.value

\* C7 as stated, on a listing whose claims all have a targetNamespace: the
\* claim returned is one matched at the earliest rule that any listed claim
\* matches, whatever the order of the listing.
C7_Original ==
    (Detailed /\ \A i \in 1..Len(VisibleClaims) : ClaimNamespace(VisibleClaims[i]) # "") =>
        LET matched == {i \in 1..Len(VisibleClaims) : NameRule(VisibleClaims[i]) > 0}
        IN matched # {} =>
              /\ IsClaimRecord
              /\ \A i \in matched : NameRule(result.value.claim) <= NameRule(VisibleClaims[i])

\* C8 as stated, for an invocation that returns: the result is the not-found
\* result exactly when no listed claim matches under rules (a)-(d) and no
\* deployment of the claims namespace matches under rule (e).
C8_Original ==
    Detailed =>
        (IsNotFound <=>
           /\ \A i \in 1..Len(VisibleClaims) :
                 NameRule(VisibleClaims[i]) = 0 /\ ~NamespaceRule(VisibleClaims[i])
           /\ \A j \in 1..Len(VisibleDeployments("rhoai")) :
                 ~IbmRule(VisibleDeployments("rhoai")[j]))

\* C8 amended: get_cluster_details raises only when a remote call fails with
\* an exception that is no ApiException; otherwise it returns the not-found
\* result exactly when no listed claim with a targetNamespace matches by name
\* under (a)-(c), no listed claim matching by namespace under (d) has a
\* deployment in that namespace, and no deployment of the claims namespace
\* matches under (e).  A claim matched by name that has a targetNamespace is
\* returned also when it has no deployment yet.
C8_NotFoundExactly ==
    result.op = "get_cluster_details" =>
        /\ result.raised <=> remote.access = "down"
        /\ ~result.raised =>
              (IsNotFound <=>
                 /\ \A i \in 1..Len(VisibleClaims) :
                       /\ ~(NameRule(VisibleClaims[i]) > 0 /\ ClaimNamespace(VisibleClaims[i]) # "")
                       /\ ~(/\ NamespaceRule(VisibleClaims[i])
                            /\ VisibleDeployments(ClaimNamespace(VisibleClaims[i])) # <<>>)
                 /\ \A j \in 1..Len(VisibleDeployments("rhoai")) :
                       ~IbmRule(VisibleDeployments("rhoai")[j]))

C8_Witness ==
    /\ Detailed
    /\ IsClaimRecord
    /\ "deployment" \notin DOMAIN result.value
    /\ NameRule(result.value.claim) > 0
    /\ InNamespace(remote.deps, ClaimNamespace(result.value.claim)) = <<>>

-----------------------------------------------------------------------------
(* C9: a claim whose deployment does not exist *)

ClaimFields == {"name", "owner", "pool", "namespace", "cluster_namespace", "pending"}

\* the listed claims that have a targetNamespace holding no deployment
Undeployed ==
    {i \in 1..Len(VisibleClaims) :
        /\ ClaimNamespace(VisibleClaims[i]) # ""
        /\ InNamespace(remote.deps, ClaimNamespace(VisibleClaims[i])) = <<>>}

FirstReason(claim) ==
    LET conditions == Get(Get(claim, "status", <<>>), "conditions", <<>>)
    IN IF conditions # <<>> /\ "reason" \in DOMAIN conditions[1]
       THEN conditions[1].reason
       ELSE "Unknown"

ViewsNamed(name) ==
    {k \in 1..Len(result.value.clusters) : result.value.clusters[k].name = name}

FieldIs(view, field, sentinel) == field \in DOMAIN view /\ view[field] = sentinel

\* C9 as stated: the view of a claim whose deployment does not exist carries
\* every deployment-derived field with its sentinel.
C9_Original ==
    (Listed /\ Unfiltered /\ result.args.include_details) =>
        \A i \in Undeployed : \E k \in ViewsNamed(NameOf(VisibleClaims[i])) :
            LET view == result.value.clusters[k]
            IN /\ \A f \in {"platform", "region", "version"} : FieldIs(view, f, "unknown")
               /\ \A f \in {"state", "power_state"} :
                     FieldIs(view, f, "unknown") \/ FieldIs(view, f, "Unknown")
               /\ \A f \in {"api_url", "console_url", "infra_id", "cluster_id"} :
                     FieldIs(view, f, "N/A")
               /\ view.pending = FirstReason(VisibleClaims[i])

\* C9 amended: a claim with a targetNamespace whose deployment does not exist
\* still yields a view, which holds the claim-derived fields only (name, owner,
\* pool, namespace, cluster_namespace, pending): no deployment-derived field is
\* present.  pending is the reason of the claim's first status condition, and
\* "Unknown" when the claim has no condition or the first one has no reason.
C9_ClaimFieldsOnly ==
    (Listed /\ Unfiltered /\ result.args.include_details) =>
        \A i \in Undeployed : \E k \in ViewsNamed(NameOf(VisibleClaims[i])) :
            LET view == result.value.clusters[k]
            IN /\ DOMAIN view = ClaimFields
               /\ view.cluster_namespace = ClaimNamespace(VisibleClaims[i])
               /\ view.pending = FirstReason(VisibleClaims[i])

C9_Witness ==
    /\ Listed /\ Unfiltered /\ result.args.include_details
    /\ \E i \in Undeployed : \E k \in ViewsNamed(NameOf(VisibleClaims[i])) :
          /\ result.value.clusters[k].pending = "NoClusters"
          /\ "state" \notin DOMAIN result.value.clusters[k]
    /\ remote.deps # <<>>

-----------------------------------------------------------------------------
(* C10: the count tools *)

Counted ==
    /\ result.op \in {"get_cluster_count_by_platform", "get_cluster_count_by_state"}
    /\ ~result.raised

UnfilteredArgs ==
    [platform_filter |-> "", name_filter |-> "", state_filter |-> "", region_filter |-> "",
     owner_filter |-> "", include_details |-> FALSE]

\* C10 as stated: the total of either count tool is the number of views
\* list_all_clusters returns without filters; in get_cluster_count_by_state
\* every count is the length of its name list, every list is sorted ascending
\* and total is the sum of the group sizes.
C10_Original ==
    Counted =>
        /\ result.value.total = list_all_clusters(remote, UnfilteredArgs).value.total
        /\ result.op = "get_cluster_count_by_state" =>
              LET groups == result.value.by_state
                  sizes == [st \in DOMAIN groups |-> Len(groups[st].clusters)]
              IN /\ \A st \in DOMAIN groups :
                       /\ groups[st].count = Len(groups[st].clusters)
                       /\ \A k \in 1..(Len(groups[st].clusters) - 1) :
                             ~StrLess(groups[st].clusters[k + 1], groups[st].clusters[k])
                 /\ result.value.total = SumOver(sizes, DOMAIN sizes)

-----------------------------------------------------------------------------
(* C11: get_cluster_owners *)

OwnerOf(claim) == Get(Get(Get(claim, "metadata", <<>>), "labels", <<>>), "owner", "")

Owned == result.op = "get_cluster_owners" /\ ~result.raised

ClaimsOf(owner) == {i \in 1..Len(VisibleClaims) : OwnerOf(VisibleClaims[i]) = owner}

-----------------------------------------------------------------------------
(* C14: test_hive_connection *)

Probed == result.op = "test_hive_connection"

\* what the probe returns for a reachable store that holds no claim
EmptyStoreProbe ==
    test_hive_connection([remote EXCEPT !.claims = <<>>, !.access = "full"]).value

ClaimsCallFails == remote.access \in {"forbidden", "down"}

\* C14 as stated: the probe issues exactly one get_clusterclaims call, never
\* raises, and for a store whose get_clusterclaims call fails it returns what it
\* returns for a reachable store without claims (success true, count 0).
C14_Original ==
    Probed =>
        /\ ~result.raised
        /\ calls = <<Call("get_clusterclaims", "rhoai")>>
        /\ ClaimsCallFails =>
              /\ result.value = EmptyStoreProbe
              /\ result.value.success
              /\ result.value.cluster_claims_count = 0

\* C14 amended: the probe issues exactly one get_clusterclaims call and never
\* raises.  When the call fails with an ApiException (an error status of the
\* API), the result is the one of a reachable store without claims (success
\* true, count 0); when it fails with another exception (the transport), the
\* result is success false with an error text; otherwise it is success true with
\* the number of claims.
C14_ProbeBlindToApiErrorsOnly ==
    Probed =>
        /\ ~result.raised
        /\ calls = <<Call("get_clusterclaims", "rhoai")>>
        /\ remote.access = "forbidden" =>
              /\ result.value = EmptyStoreProbe
              /\ result.value.success
              /\ result.value.cluster_claims_count = 0
        /\ remote.access = "down" =>
              /\ ~result.value.success
              /\ DOMAIN result.value = {"success", "error"}
        /\ remote.access \in {"full", "namespaced"} =>
              /\ result.value.success
              /\ result.value.cluster_claims_count = Len(remote.claims)

\* the probe of a store that holds claims and answers with an error status
C14_Witness ==
    /\ Probed
    /\ remote.access = "forbidden"
    /\ remote.claims # <<>>
    /\ result.value.success
    /\ result.value.cluster_claims_count = 0

-----------------------------------------------------------------------------
(* C12: a listing depends on the store as it is when asked *)

\* the names an unfiltered listing of the store holds: the claims that have a
\* targetNamespace, then the deployments of the claims namespace, sorted
ExpectedNames(store) ==
    IF store.access = "forbidden" THEN <<>>
    ELSE LET claims == SelectSeq(store.claims, LAMBDA c : ClaimNamespace(c) # "")
             ibm == InNamespace(store.deps, "rhoai")
         IN Sorted([i \in 1..Len(claims) |-> NameOf(claims[i])]
                   \o [j \in 1..Len(ibm) |-> NameOf(ibm[j])])

NamesIn(res) ==
    IF res.args.include_details
    THEN [k \in 1..Len(res.value.clusters) |-> res.value.clusters[k].name]
    ELSE res.value.clusters

\* the answer res is the listing of the store: same names in the same order,
\* and a detailed view carries deployment fields exactly when its deployment
\* is in the store
ListingOf(res, store) ==
    /\ res.op = "list_all_clusters"
    /\ res.raised <=> store.access = "down"
    /\ ~res.raised =>
          /\ NamesIn(res) = ExpectedNames(store)
          /\ res.value.total = Len(res.value.clusters)
          /\ res.args.include_details =>
                \A k \in 1..Len(res.value.clusters) :
                    LET view == res.value.clusters[k]
                    IN "owner" \in DOMAIN view =>
                          ("state" \in DOMAIN view <=>
                              InNamespace(store.deps, view.cluster_namespace) # <<>>)

ListQueryStep == remote' = remote /\ result'.op = "list_all_clusters"

\* C12: a list_all_clusters() call against the store the previous call saw
\* returns the identical result, and every call returns the listing of the
\* store as it is at the call, whatever was returned before.
C12_ListingIsOfCurrentStore ==
    [][ListQueryStep =>
          /\ ListingOf(result', remote')
          /\ (ListingOf(result, remote) /\ result.args = result'.args) => result' = result]_vars

\* a listing of a store that holds a claim and its deployment, both filed after
\* the handle was built by an earlier query
C12_Witness ==
    /\ ListingOf(result, remote)
    /\ ~result.raised
    /\ result.args.include_details
    /\ calls # <<>>
    /\ \E k \in 1..Len(result.value.clusters) :
          /\ "owner" \in DOMAIN result.value.clusters[k]
          /\ "state" \in DOMAIN result.value.clusters[k]
    /\ Len(result.value.clusters) = 2

-----------------------------------------------------------------------------
(* C13: from list_all_clusters to get_cluster_details *)

\* the names list_all_clusters() returns for the store as it is
NamesListed == list_all_clusters(remote, UnfilteredArgs).value.clusters

\* C13 as stated: get_cluster_details of a name that list_all_clusters returns
\* is the record of the cluster with exactly that name.
C13_Original ==
    (Detailed /\ result.args.cluster_name \in Range(NamesListed)) =>
        /\ ~IsNotFound
        /\ result.value.name = result.args.cluster_name

-----------------------------------------------------------------------------
(* C15: the view of a deployment without a claim *)

BuiltFromIbm == result.op = "extract_ibm_cluster_info"

InputLabels == Get(Get(InputDeployment, "metadata", <<>>), "labels", <<>>)

InputPlatformMap == Get(Get(InputDeployment, "spec", <<>>), "platform", <<>>)

HasPlatformLabel == PLATFORM_LABEL \in DOMAIN InputLabels /\ InputLabels[PLATFORM_LABEL] # ""

\* platform: the label when present, else the key of the platform map of the
\* spec, else "unknown"
PlatformAsRead ==
    /\ HasPlatformLabel => result.value.platform = InputLabels[PLATFORM_LABEL]
    /\ (~HasPlatformLabel /\ InputPlatformMap # <<>>) =>
          result.value.platform \in DOMAIN InputPlatformMap
    /\ (~HasPlatformLabel /\ InputPlatformMap = <<>>) => result.value.platform = "unknown"

\* C15 as stated: the view has pool "N/A (IBM - no pool)", an owner field that
\* is the empty string, a sentinel pending reason, and platform as read above.
C15_Original ==
    BuiltFromIbm =>
        /\ result.value.pool = "N/A (IBM - no pool)"
        /\ FieldIs(result.value, "owner", "")
        /\ result.value.pending = "N/A (IBM)"
        /\ PlatformAsRead

\* C15 amended: the view has pool "N/A (IBM - no pool)", pending reason
\* "N/A (IBM)" and no owner field at all; platform is the cluster-platform label
\* when present and non-empty, otherwise the first key of the platform map of
\* the spec, otherwise "unknown".
C15_IbmViewHasNoOwner ==
    BuiltFromIbm =>
        /\ result.value.pool = "N/A (IBM - no pool)"
        /\ "owner" \notin DOMAIN result.value
        /\ result.value.pending = "N/A (IBM)"
        /\ PlatformAsRead

\* a deployment whose platform label is empty and whose spec names ibmcloud
C15_Witness ==
    /\ BuiltFromIbm
    /\ PLATFORM_LABEL \in DOMAIN InputLabels
    /\ ~HasPlatformLabel
    /\ InputPlatformMap # <<>>
    /\ result.value.platform = "ibmcloud"

-----------------------------------------------------------------------------
(* C16: the tools only read *)

Tools ==
    {"list_all_clusters", "get_cluster_details", "get_cluster_count_by_platform",
     "get_cluster_count_by_state", "get_cluster_owners", "test_hive_connection"}

ReadRequests ==
    {"get_clusterclaims", "get_clusterdeployments", "get_all_clusterdeployments",
     "get_clusterpool"}

\* C16: a step of any of the six tools leaves the store as it was, and every
\* request it issues is a list or a get.
C16_ToolsOnlyRead ==
    [][result'.op \in Tools =>
          /\ remote' = remote
          /\ \A i \in 1..Len(calls') : calls'[i].op \in ReadRequests]_vars

\* a tool has answered over a store that holds claims and deployments, one
\* claim without a namespace among them
C16_Witness ==
    /\ result.op \in Tools
    /\ Len(calls) >= 3
    /\ remote.deps # <<>>
    /\ \E i \in 1..Len(remote.claims) : ClaimNamespace(remote.claims[i]) = ""

-----------------------------------------------------------------------------
(* C17, C18, C20: get_all_cluster_data *)

Fetched == result.op = "get_all_cluster_data" /\ ~result.raised

\* the cluster-wide listing came back with at least one record
FastPath == remote.access = "full" /\ remote.deps # <<>>

\* the requests between the cluster-wide listing and the listing of the
\* claims namespace
PerNamespaceCalls == SubSeq(calls, 3, Len(calls) - 1)

ClaimNamespaces ==
    {ClaimNamespace(VisibleClaims[i]) : i \in 1..Len(VisibleClaims)} \ {""}

\* C17 as stated: on the fallback path every distinct targetNamespace is asked
\* for at most once, whether or not a deployment came back, so the number of
\* per-namespace requests is at most the number of distinct targetNamespaces.
C17_Original ==
    (Fetched /\ ~FastPath) =>
        /\ \A k, l \in 1..Len(PerNamespaceCalls) :
              PerNamespaceCalls[k].namespace = PerNamespaceCalls[l].namespace => k = l
        /\ Len(PerNamespaceCalls) <= Cardinality(ClaimNamespaces)


DeploymentNamespaces ==
    {Get(Get(remote.deps[j], "metadata", <<>>), "namespace", "") : j \in 1..Len(remote.deps)} \ {""}

\* the last deployment of the namespace in the cluster-wide listing
LastIn(namespace) ==
    LET deps == InNamespace(remote.deps, namespace) IN deps[Len(deps)]

\* C18: the fallback path is taken exactly when the cluster-wide listing comes
\* back empty.  On the fast path exactly three requests are issued (the claims
\* of the claims namespace, the cluster-wide deployments, the deployments of the
\* claims namespace) and deployments_by_namespace holds, for each namespace, its
\* last deployment in the listing; on the fallback path the namespace of every
\* claim is asked for.
C18_FastPathThreeCallsLastWins ==
    Fetched =>
        /\ calls[1] = Call("get_clusterclaims", "rhoai")
        /\ calls[2] = Call("get_all_clusterdeployments", "")
        /\ calls[Len(calls)] = Call("get_clusterdeployments", "rhoai")
        /\ FastPath =>
              /\ Len(calls) = 3
              /\ DOMAIN result.value.deployments_by_namespace = DeploymentNamespaces
              /\ \A ns \in DeploymentNamespaces :
                    result.value.deployments_by_namespace[ns] = LastIn(ns)
        /\ ~FastPath =>
              /\ {PerNamespaceCalls[k].namespace : k \in 1..Len(PerNamespaceCalls)} = ClaimNamespaces
              /\ \A k \in 1..Len(PerNamespaceCalls) :
                    PerNamespaceCalls[k].op = "get_clusterdeployments"

\* the fast path over two claims and a namespace that holds two deployments
C18_Witness ==
    /\ Fetched
    /\ FastPath
    /\ Len(remote.claims) = 2
    /\ Len(InNamespace(remote.deps, "foo-ns")) = 2
    /\ result.value.deployments_by_namespace["foo-ns"] = remote.deps[2]

OneDeploymentPerNamespace ==
    \A ns \in DeploymentNamespaces : Len(InNamespace(remote.deps, ns)) = 1

\* what the other path returns for the same store
OtherPath ==
    get_all_cluster_data([remote EXCEPT !.access = IF @ = "full" THEN "namespaced" ELSE "full"])

Joined(map, claim) == Get(map, ClaimNamespace(claim), None)

\* C20: over a store in which every namespace holds at most one deployment and
\* the cluster-wide listing is not empty, the fast path and the fallback path
\* join the same deployment to every claim: the only deployment of the claim's
\* targetNamespace, which is the one get_cluster_details lists first, or none.
\* The views built from the two joins are the same.
C20_PathsAgree ==
    (Fetched /\ OneDeploymentPerNamespace /\ remote.deps # <<>>
       /\ remote.access \in {"full", "namespaced"}) =>
        /\ \A i \in 1..Len(remote.claims) :
              LET claim == remote.claims[i]
                  listed == InNamespace(remote.deps, ClaimNamespace(claim))
              IN /\ Joined(result.value.deployments_by_namespace, claim) =
                       Joined(OtherPath.deployments_by_namespace, claim)
                 /\ ClaimNamespace(claim) # "" =>
                       Joined(result.value.deployments_by_namespace, claim) =
                          (IF listed = <<>> THEN None ELSE listed[1])
        /\ AllClusters(result.value) = AllClusters(OtherPath)

\* the fallback path has joined a deployment that the fast path would join too
C20_Witness ==
    /\ Fetched
    /\ OneDeploymentPerNamespace
    /\ remote.access = "namespaced"
    /\ Len(remote.deps) = 2
    /\ \E i \in 1..Len(remote.claims) :
          Joined(result.value.deployments_by_namespace, remote.claims[i]) # None
    /\ \E i \in 1..Len(remote.claims) :
          /\ ClaimNamespace(remote.claims[i]) # ""
          /\ Joined(result.value.deployments_by_namespace, remote.claims[i]) = None

-----------------------------------------------------------------------------
(* C19: the connection handle *)

\* no invocation starts before the one before it has returned
Sequential ==
    \A i \in 1..(Len(calls) - 1) :
        calls[i + 1].invocation # calls[i].invocation => calls[i].op = "return"

Constructions == {i \in 1..Len(calls) : calls[i].op = "HiveClusterClient"}

\* C19: in a sequential run the handle is built at most once, by the first
\* invocation, and every invocation returns it.  In any run, interleaved or
\* not, every invocation returns a built handle, and the global holds a handle
\* from the first assignment on.
C19_HandleBuiltOnceWhenSequential ==
    /\ Sequential =>
          /\ Cardinality(Constructions) <= 1
          /\ \A i \in Constructions : calls[i].invocation = calls[1].invocation
    /\ \A i \in 1..Len(calls) :
          /\ calls[i].op = "return" => calls[i].handle = "HiveClusterClient"
          /\ calls[i].op = "store" => hive_client = "HiveClusterClient"
    /\ result.op = "get_hive_client" => result.value = "HiveClusterClient"

\* two interleaved invocations have each built a handle and returned
C19_Witness ==
    /\ ~Sequential
    /\ Cardinality(Constructions) = 2
    /\ Cardinality({i \in 1..Len(calls) : calls[i].op = "return"}) = 2

====
